---- MODULE Spec2Model ----
(***************************************************************************)
(* Model of routes/withdrawal.js: the withdrawal submission handler        *)
(* (POST /) and the history reader (GET /?userId=) over the User and       *)
(* Withdrawal collections.                                                 *)
(*                                                                         *)
(* A handler runs atomically between two awaits (one Node event loop); the *)
(* awaited store operations of different requests interleave freely.  Each *)
(* action below is one such atomic segment of a handler.                   *)
(***************************************************************************)
EXTENDS Integers, Sequences, FiniteSets, TLC

(* ------------------------------ bounds --------------------------------- *)
\* number of POST requests in one behaviour; all may be in flight together
MaxSubmissions == 2
\* largest whole amount fed to the net-amount computation in SpecNet
MaxNetAmount == 1400

(* -------------------- IEEE-754 double arithmetic ----------------------- *)
(* A non-negative real x < 2^21 is held as five limbs, least significant   *)
(* first, base 2^15, in units of 2^-54: x = (SUM l[i] * 2^(15(i-1)))/2^54. *)
(* Every double with 1 <= x < 8192 is such a number (its ulp is at least   *)
(* 2^-52).  Amounts are whole numbers below 8192.                          *)
RECURSIVE Pow2(_)
Pow2(n) == IF n = 0 THEN 1 ELSE 2 * Pow2(n - 1)

Base == Pow2(15)

RECURSIVE Log2(_)
\* floor(log2(n)) for n >= 1
Log2(n) == IF n < 2 THEN 0 ELSE 1 + Log2(n \div 2)

RECURSIVE Carry(_, _, _)
\* propagate carries (or borrows) from limb i upwards
Carry(l, i, c) ==
    IF i > Len(l) THEN l
    ELSE LET v == l[i] + c
         IN  Carry([l EXCEPT ![i] = v % Base], i + 1, v \div Base)

Norm(l) == Carry(l, 1, 0)

\* the double literal 0.18 = 0x1.70a3d70a3d70ap-3 = 3242591731706757 / 2^54
Rate018 == <<27525, 28835, 5242, 92, 0>>

\* the whole number a as limbs: a * 2^54 = a * 2^9 * 2^45
FromInt(a) == Norm(<<0, 0, 0, a * 512, 0>>)

\* exact product of a limb number by a small whole number
MulSmall(l, a) == Norm([i \in 1..Len(l) |-> l[i] * a])

\* exact difference x - y, for x >= y
Sub(x, y) == Norm([i \in 1..Len(x) |-> x[i] - y[i]])

\* integer part: the bits from 2^54 up
IntPart(l) == (l[5] * Base + l[4]) \div 512

\* round-to-nearest, ties-to-even, to the 53 significant bits of a double,
\* for 1 <= x < 8192 (the dropped bits then lie in the lowest limb)
RoundToDouble(l) ==
    LET s    == Log2(IntPart(l)) + 2        \* bits dropped: ulp = 2^(s-54)
        u    == Pow2(s)
        r    == l[1] % u
        odd  == (l[1] \div u) % 2 = 1
        up   == r > u \div 2 \/ (r = u \div 2 /\ odd)
    IN  Norm([l EXCEPT ![1] = l[1] - r + (IF up THEN u ELSE 0)])

\* amount * 0.18 in double arithmetic (line 70)
TaxOf(amount) == RoundToDouble(MulSmall(Rate018, amount))

\* Math.round in place of Math.floor: the integer part of x + 1/2
RoundDiff(amount, tax) ==
    LET x == RoundToDouble(Sub(FromInt(amount), tax))
    IN  IntPart(Norm([x EXCEPT ![4] = @ + 256]))

\* Math.floor(amount - tax) in double arithmetic (line 71)
FloorDiff(amount, tax) == IntPart(RoundToDouble(Sub(FromInt(amount), tax)))

NetAmountOf(amount) == FloorDiff(amount, TaxOf(amount))

(* ------------------------ JavaScript values ---------------------------- *)
(* A string is a sequence of one-character strings; an optional value      *)
(* (undefined, null, a missing document field) is the empty tuple and a    *)
(* present value v is <<v>>.                                               *)
None == <<>>
Some(v) == <<v>>

Digits == {"0", "1", "2", "3", "4", "5", "6", "7", "8", "9"}
DigitVal(c) == CASE c = "0" -> 0 [] c = "1" -> 1 [] c = "2" -> 2 [] c = "3" -> 3
                 [] c = "4" -> 4 [] c = "5" -> 5 [] c = "6" -> 6 [] c = "7" -> 7
                 [] c = "8" -> 8 [] c = "9" -> 9

RECURSIVE TrimLeft(_)
TrimLeft(s) == IF s # <<>> /\ Head(s) = " " THEN TrimLeft(Tail(s)) ELSE s

RECURSIVE TrimRight(_)
TrimRight(s) ==
    IF s # <<>> /\ s[Len(s)] = " " THEN TrimRight(SubSeq(s, 1, Len(s) - 1)) ELSE s

\* String.prototype.trim
Trim(s) == TrimRight(TrimLeft(s))

RECURSIVE DigitsValue(_, _)
DigitsValue(s, acc) ==
    IF s = <<>> THEN acc ELSE DigitsValue(Tail(s), 10 * acc + DigitVal(Head(s)))

NaN == [nan |-> TRUE, v |-> 0]
Num(n) == [nan |-> FALSE, v |-> n]

\* Number(string): surrounding blanks ignored, "" is 0, an optional sign and
\* decimal digits give the number, anything else is NaN
StringToNumber(str) ==
    LET t    == Trim(str)
        neg  == t # <<>> /\ Head(t) = "-"
        body == IF neg \/ (t # <<>> /\ Head(t) = "+") THEN Tail(t) ELSE t
    IN  IF t = <<>> THEN Num(0)
        ELSE IF body = <<>> \/ \E i \in 1..Len(body) : body[i] \notin Digits THEN NaN
        ELSE Num(IF neg THEN 0 - DigitsValue(body, 0) ELSE DigitsValue(body, 0))

\* a request-body value for amount: a JSON number, a JSON string, or absent
JsNumber(n) == [t |-> "number", v |-> n, s |-> <<>>]
JsString(str) == [t |-> "string", v |-> 0, s |-> str]
JsUndefined == [t |-> "undefined", v |-> 0, s |-> <<>>]

\* Number(x)
ToNumber(x) ==
    CASE x.t = "number" -> Num(x.v)
      [] x.t = "string" -> StringToNumber(x.s)
      [] x.t = "undefined" -> NaN

\* lines 21-22: amount = Number(amount); if (Number.isNaN(amount)) amount = 0
NormalizeAmount(raw) == LET n == ToNumber(raw) IN IF n.nan THEN 0 ELSE n.v

\* line 25: (phone || mpesaNumber || "").toString().trim(); "" and undefined
\* are both the empty sequence here, and both falsy
PayoutNumber(phone, mpesaNumber) ==
    Trim(IF phone # <<>> THEN phone ELSE IF mpesaNumber # <<>> THEN mpesaNumber ELSE <<>>)

(* ----------------------------- responses ------------------------------- *)
\* status and body of res.status(..).json(..); the messages without their
\* leading pictograph, the 201 message as its fixed text and the formatted amount
NoResp == [status |-> 0]
Reject(code, msg) == [status |-> code, success |-> FALSE, message |-> msg]

MissingFields == Reject(400, "All fields (userId, amount, phone) are required.")
BelowMinimum == Reject(400, "Minimum withdrawal is Ksh 200.")
OutsideBusinessHours == Reject(400, "Withdrawals are allowed from 9AM to 5PM only.")
AccountNotFound == Reject(404, "User not found.")
InsufficientBalance == Reject(400, "Insufficient wallet balance.")
InternalError == Reject(500, "Internal server error.")
MissingUserId == Reject(400, "Missing userId in query.")
HistoryError == Reject(500, "Failed to load withdrawal history.")

\* netAmount.toFixed(2) of a whole number: the digits and two zero decimals
ToFixed2(n) == [whole |-> n, decimals |-> <<0, 0>>]

Submitted(netAmount) ==
    [status |-> 201, success |-> TRUE,
     message |-> "Withdrawal request submitted.", ksh |-> ToFixed2(netAmount)]

HistoryOk(list) == [status |-> 200, success |-> TRUE, history |-> list]

(* ------------------------ the POST validation -------------------------- *)
MinWithdrawal == 200
OpenHour == 9
CloseHour == 17

\* the minimum rule ahead of the required-fields rule
ValidateMinimumFirst(userId, amount, payoutNumber, hour) ==
    IF amount < MinWithdrawal THEN BelowMinimum
    ELSE IF userId = "" \/ amount = 0 \/ payoutNumber = <<>> THEN MissingFields
    ELSE IF hour < OpenHour \/ hour >= CloseHour THEN OutsideBusinessHours
    ELSE NoResp

\* the closing hour taken as still open
ValidateClosingHourOpen(userId, amount, payoutNumber, hour) ==
    IF userId = "" \/ amount = 0 \/ payoutNumber = <<>> THEN MissingFields
    ELSE IF amount < MinWithdrawal THEN BelowMinimum
    ELSE IF hour < OpenHour \/ hour > CloseHour THEN OutsideBusinessHours
    ELSE NoResp

\* lines 28-52: the three synchronous rules; NoResp when all pass
Validate(userId, amount, payoutNumber, hour) ==
    IF userId = "" \/ amount = 0 \/ payoutNumber = <<>> THEN MissingFields
    ELSE IF amount < MinWithdrawal THEN BelowMinimum
    ELSE IF hour < OpenHour \/ hour >= CloseHour THEN OutsideBusinessHours
    ELSE NoResp

\* the balance rule left out
CheckAccountNoBalance(user, amount) ==
    IF user = None THEN AccountNotFound ELSE NoResp

\* a withdrawal of the whole balance refused
CheckAccountStrict(user, amount) ==
    IF user = None THEN AccountNotFound
    ELSE IF user[1].wallet <= amount THEN InsufficientBalance
    ELSE NoResp

\* lines 56-67: the two rules on the loaded account; NoResp when both pass
CheckAccount(user, amount) ==
    IF user = None THEN AccountNotFound
    ELSE IF user[1].wallet < amount THEN InsufficientBalance
    ELSE NoResp

(* ------------------------------- state --------------------------------- *)
VARIABLES
    users,      \* User collection: account id -> document
    records,    \* Withdrawal collection, in insertion order
    nextId,     \* next Withdrawal _id
    submitted,  \* POST requests received so far; also the logical instant
    req,        \* POST handlers: position, locals and response of each request
    rd,         \* the GET handler: position, locals and response
    initial     \* the account as it was at the start (never read by a handler)

vars == <<users, records, nextId, submitted, req, rd, initial>>

\* the POST requests, in order of arrival
Reqs == 1..MaxSubmissions

\* an account that exists, one that does not
ExistingIds == {"u1"}

\* (user.cashouts || 0)
OrZero(opt) == IF opt = None THEN 0 ELSE opt[1]

\* an embedded summary and a Withdrawal document written before this run
LegacySummary == [amount |-> 82, phone |-> <<"7">>, date |-> 0, status |-> "paid"]
LegacyRecord(owner) ==
    [id |-> 0, user |-> owner, amount |-> 100, amountAfterTax |-> None,
     mpesaNumber |-> <<"7">>, status |-> "paid", date |-> 0]

\* the stores a run starts from: cashouts, embedded list, Withdrawal collection
InitialStores ==
    { <<None, None, <<>> >>,
      <<Some(100), Some(<<LegacySummary>>), <<>> >>,
      <<Some(100), Some(<<>>), <<LegacyRecord("u1")>> >>,
      <<None, Some(<<LegacySummary>>), <<LegacyRecord("u2")>> >> }

InitialWallets == {0, 250, 500}

IdleReq ==
    [pc |-> "idle", userId |-> "", amount |-> 0, payoutNumber |-> <<>>, hour |-> 0,
     now |-> 0, user |-> None, netAmount |-> 0, doc |-> None, pushed |-> FALSE,
     resp |-> NoResp,
     \* observations: the step the handler ended in, the account as stored when
     \* the request arrived and as the handler loaded it, and whether another
     \* handler for the same account was in flight during this one
     stage |-> "idle", before |-> None, loaded |-> None, overlapped |-> FALSE]

IdleRd ==
    [pc |-> "idle", userId |-> "", resp |-> NoResp,
     found |-> <<>>, user |-> None, lookedUp |-> FALSE]

Init ==
    /\ \E w \in InitialWallets, k \in InitialStores :
          /\ users = [u \in ExistingIds |->
                        [wallet |-> w, cashouts |-> k[1], withdrawals |-> k[2]]]
          /\ records = k[3]
    /\ nextId = 1
    /\ submitted = 0
    /\ req = [r \in Reqs |-> IdleReq]
    /\ rd = IdleRd
    /\ initial = users

(* --------------------------- store operations -------------------------- *)
\* User.findById
FindById(coll, id) == IF id \in DOMAIN coll THEN Some(coll[id]) ELSE None

InFlight(r) == req[r].pc \in {"finding", "inserting", "saving"}

\* lines 74-81: new Withdrawal({...})
NewWithdrawal(id, userId, amount, netAmount, payoutNumber, now) ==
    [id |-> id, user |-> userId, amount |-> amount, amountAfterTax |-> Some(netAmount),
     mpesaNumber |-> payoutNumber, status |-> "pending", date |-> now]

\* lines 85-92: the summary pushed on the loaded document, when it has the array
PushSummary(user, netAmount, payoutNumber, now) ==
    IF user.withdrawals = None THEN user
    ELSE [user EXCEPT !.withdrawals =
            Some(Append(@[1], [amount |-> netAmount, phone |-> payoutNumber,
                               date |-> now, status |-> "pending"]))]

\* the wallet debited by the net amount
DebitNet(user, amount) ==
    [user EXCEPT !.wallet = @ - NetAmountOf(amount),
                 !.cashouts = Some(OrZero(@) + amount)]

\* the cashouts counter left alone
DebitWalletOnly(user, amount) == [user EXCEPT !.wallet = @ - amount]

\* lines 95-96: the debit on the loaded document
Debit(user, amount) ==
    [user EXCEPT !.wallet = @ - amount, !.cashouts = Some(OrZero(@) + amount)]

\* line 97: user.save() writes the modified paths of the loaded document: the
\* two numbers are set to its values, the pushed summary is appended to the
\* stored array
SaveUser(coll, id, user, pushed) ==
    [coll EXCEPT ![id] =
        [wallet |-> user.wallet, cashouts |-> user.cashouts,
         withdrawals |-> IF pushed
                         THEN Some(Append(@.withdrawals[1],
                                          user.withdrawals[1][Len(user.withdrawals[1])]))
                         ELSE @.withdrawals]]

(* ------------------------------ POST / --------------------------------- *)
\* lines 18-55: normalisation, the synchronous rules, then User.findById is issued
Submit(r, userId, rawAmount, phone, mpesaNumber, hour) ==
    /\ r = submitted + 1
    /\ req[r].pc = "idle"
    /\ LET amount == NormalizeAmount(rawAmount)
           payoutNumber == PayoutNumber(phone, mpesaNumber)
           verdict == Validate(userId, amount, payoutNumber, hour)
           now == r
           others == {q \in Reqs \ {r} : InFlight(q) /\ req[q].userId = userId}
           passed == verdict = NoResp
           mine == [IdleReq EXCEPT !.userId = userId, !.amount = amount,
                       !.payoutNumber = payoutNumber, !.hour = hour, !.now = now,
                       !.before = FindById(users, userId),
                       !.stage = "validate",
                       !.overlapped = passed /\ others # {},
                       !.pc = IF passed THEN "finding" ELSE "done",
                       !.resp = verdict]
       IN  req' = [q \in Reqs |->
                        IF q = r THEN mine
                        ELSE IF passed /\ q \in others
                             THEN [req[q] EXCEPT !.overlapped = TRUE]
                             ELSE req[q]]
    /\ submitted' = submitted + 1
    /\ UNCHANGED <<users, records, nextId, rd, initial>>

\* the Withdrawal document stored before the account rules are looked at
FindReturnInsertFirst(r) ==
    /\ req[r].pc = "finding"
    /\ LET user == FindById(users, req[r].userId)
           verdict == CheckAccount(user, req[r].amount)
           netAmount == NetAmountOf(req[r].amount)
           doc == NewWithdrawal(nextId, req[r].userId, req[r].amount, netAmount,
                                req[r].payoutNumber, req[r].now)
       IN  /\ records' = Append(records, doc)
           /\ req' = [req EXCEPT ![r].pc = IF verdict # NoResp THEN "done" ELSE "saving",
                          ![r].resp = verdict, ![r].user = user, ![r].loaded = user,
                          ![r].stage = "find", ![r].netAmount = netAmount,
                          ![r].doc = Some(doc)]
    /\ nextId' = nextId + 1
    /\ UNCHANGED <<users, submitted, rd, initial>>

\* lines 55-82: the account arrives; the two account rules, the tax, and the
\* Withdrawal document is built and its save issued
FindReturn(r) ==
    /\ req[r].pc = "finding"
    /\ LET user == FindById(users, req[r].userId)
           verdict == CheckAccount(user, req[r].amount)
           tax == TaxOf(req[r].amount)
           netAmount == FloorDiff(req[r].amount, tax)
       IN  IF verdict # NoResp
           THEN /\ req' = [req EXCEPT ![r].pc = "done", ![r].resp = verdict,
                                      ![r].user = user, ![r].loaded = user,
                                      ![r].stage = "find"]
                /\ UNCHANGED nextId
           ELSE /\ req' = [req EXCEPT ![r].pc = "inserting", ![r].user = user,
                              ![r].loaded = user, ![r].stage = "find", ![r].netAmount = netAmount,
                              ![r].doc = Some(NewWithdrawal(nextId, req[r].userId,
                                            req[r].amount, netAmount,
                                            req[r].payoutNumber, req[r].now))]
                /\ nextId' = nextId + 1
    /\ UNCHANGED <<users, records, submitted, rd, initial>>

\* lines 82-97: the Withdrawal document is stored; the loaded account is
\* changed in memory and its save issued
InsertReturn(r) ==
    /\ req[r].pc = "inserting"
    /\ records' = Append(records, req[r].doc[1])
    /\ LET user == req[r].user[1]
           mirrored == PushSummary(user, req[r].netAmount, req[r].payoutNumber, req[r].now)
       IN  req' = [req EXCEPT ![r].pc = "saving", ![r].stage = "insert",
                       ![r].pushed = user.withdrawals # None,
                       ![r].user = Some(Debit(mirrored, req[r].amount))]
    /\ UNCHANGED <<users, nextId, submitted, rd, initial>>

\* lines 97-104: the account is stored and the request answered
SaveReturn(r) ==
    /\ req[r].pc = "saving"
    /\ users' = SaveUser(users, req[r].userId, req[r].user[1], req[r].pushed)
    /\ req' = [req EXCEPT ![r].pc = "done", ![r].stage = "save",
                          ![r].resp = Submitted(req[r].netAmount)]
    /\ UNCHANGED <<records, nextId, submitted, rd, initial>>

\* the catch block taking back the Withdrawal document it had stored
StoreErrorRollback(r) ==
    /\ InFlight(r)
    /\ req' = [req EXCEPT ![r].pc = "done", ![r].resp = InternalError,
                          ![r].stage = req[r].pc]
    /\ records' = SelectSeq(records, LAMBDA w : req[r].doc = None \/ w # req[r].doc[1])
    /\ UNCHANGED <<users, nextId, submitted, rd, initial>>

\* lines 105-110: the awaited store operation throws
StoreError(r) ==
    /\ InFlight(r)
    /\ req' = [req EXCEPT ![r].pc = "done", ![r].resp = InternalError,
                          ![r].stage = req[r].pc]
    /\ UNCHANGED <<users, records, nextId, submitted, rd, initial>>

(* ------------------------------- GET / --------------------------------- *)
RECURSIVE InsertByDate(_, _)
\* w placed in a list that is ordered newest first
InsertByDate(w, list) ==
    IF list = <<>> THEN <<w>>
    ELSE IF w.date >= Head(list).date THEN <<w>> \o list
    ELSE <<Head(list)>> \o InsertByDate(w, Tail(list))

RECURSIVE SortByDateDesc(_)
SortByDateDesc(list) ==
    IF list = <<>> THEN <<>> ELSE InsertByDate(Head(list), SortByDateDesc(Tail(list)))

\* line 129: Withdrawal.find({ user: userId }).sort({ date: -1 })
FindWithdrawals(coll, userId) ==
    SortByDateDesc(SelectSeq(coll, LAMBDA w : w.user = userId))

\* lines 146-152: the shape the frontend expects
MapRecord(w) ==
    [id |-> w.id,
     amount |-> IF w.amountAfterTax # None THEN w.amountAfterTax[1] ELSE w.amount,
     status |-> w.status, date |-> w.date, phone |-> w.mpesaNumber]

RECURSIVE Reverse(_)
Reverse(list) == IF list = <<>> THEN <<>> ELSE Append(Reverse(Tail(list)), Head(list))

\* the embedded list returned newest first, like the records
EmbeddedHistoryNewestFirst(user) ==
    IF user.withdrawals = None THEN <<>> ELSE Reverse(user.withdrawals[1])

\* lines 139-142: user.withdrawals || []
EmbeddedHistory(user) == IF user.withdrawals = None THEN <<>> ELSE user.withdrawals[1]

\* lines 120-129: the query parameter is checked and the find issued
GetSubmit(userId) ==
    /\ rd.pc \in {"idle", "done"}
    /\ rd' = IF userId = ""
             THEN [IdleRd EXCEPT !.pc = "done", !.resp = MissingUserId]
             ELSE [IdleRd EXCEPT !.pc = "querying", !.userId = userId]
    /\ UNCHANGED <<users, records, nextId, submitted, req, initial>>

\* lines 129-154: the records arrive; mapped if any, else the account is looked up
GetFindReturn ==
    /\ rd.pc = "querying"
    /\ LET withdrawals == FindWithdrawals(records, rd.userId)
       IN  rd' = IF Len(withdrawals) = 0
                 THEN [rd EXCEPT !.pc = "loading", !.found = withdrawals]
                 ELSE [rd EXCEPT !.pc = "done", !.found = withdrawals,
                          !.resp = HistoryOk([i \in 1..Len(withdrawals) |->
                                                 MapRecord(withdrawals[i])])]
    /\ UNCHANGED <<users, records, nextId, submitted, req, initial>>

\* lines 133-142: the account arrives
GetUserReturn ==
    /\ rd.pc = "loading"
    /\ LET user == FindById(users, rd.userId)
       IN  rd' = [rd EXCEPT !.pc = "done", !.user = user, !.lookedUp = TRUE,
                     !.resp = IF user = None THEN AccountNotFound
                              ELSE HistoryOk(EmbeddedHistory(user[1]))]
    /\ UNCHANGED <<users, records, nextId, submitted, req, initial>>

\* lines 155-160: the awaited find or lookup throws
GetError ==
    /\ rd.pc \in {"querying", "loading"}
    /\ rd' = [rd EXCEPT !.pc = "done", !.resp = HistoryError]
    /\ UNCHANGED <<users, records, nextId, submitted, req, initial>>

(* --------------------------- specifications ---------------------------- *)
\* The whole router: POST requests for one amount, and the history reader.
UserIds == {"u1", "u2"}
Phones == {<<"7">>}
Hours == {12}

Next ==
    \/ \E r \in Reqs, u \in UserIds, p \in Phones, h \in Hours :
          Submit(r, u, JsNumber(300), p, <<>>, h)
    \/ \E r \in Reqs : FindReturn(r)
    \/ \E r \in Reqs : InsertReturn(r)
    \/ \E r \in Reqs : SaveReturn(r)
    \/ \E r \in Reqs : StoreError(r)
    \/ \E u \in UserIds \cup {""} : GetSubmit(u)
    \/ GetFindReturn
    \/ GetUserReturn
    \/ GetError

Spec == Init /\ [][Next]_vars

\* The POST handlers alone, overlapping freely, for amounts that one balance
\* covers separately but not together, inside and outside business hours.
Amounts == {JsNumber(200), JsNumber(300)}
SubmitHours == {12, 17}

NextSubmit ==
    \/ \E r \in Reqs, u \in UserIds, a \in Amounts, p \in Phones, h \in SubmitHours :
          Submit(r, u, a, p, <<>>, h)
    \/ \E r \in Reqs : FindReturn(r)
    \/ \E r \in Reqs : InsertReturn(r)
    \/ \E r \in Reqs : SaveReturn(r)
    \/ \E r \in Reqs : StoreError(r)

SpecSubmit == Init /\ [][NextSubmit]_vars

\* One POST request, over every shape of body and every side of each rule.
BodyUserIds == {"", "u1", "u2"}
BodyAmounts ==
    { JsUndefined, JsString(<<"a", "b", "c">>), JsString(<<>>),
      JsString(<<" ", "2", "5", "0">>), JsString(<<"-", "5">>),
      JsNumber(0), JsNumber(0 - 50), JsNumber(150), JsNumber(199),
      JsNumber(200), JsNumber(300), JsNumber(600) }
BodyPhones == {<<>>, <<" ">>, <<" ", "7", " ">>}
BodyMpesaNumbers == {<<>>, <<"9">>}
ClockHours == {0, 8, 9, 16, 17, 23}

NextValidate ==
    \/ \E u \in BodyUserIds, a \in BodyAmounts, p \in BodyPhones,
          m \in BodyMpesaNumbers, h \in ClockHours : Submit(1, u, a, p, m, h)
    \/ FindReturn(1)
    \/ InsertReturn(1)
    \/ SaveReturn(1)
    \/ StoreError(1)

SpecValidate == Init /\ [][NextValidate]_vars

\* One POST request for each whole amount from the minimum up, on an account
\* that can pay it.
InitNet ==
    /\ users = [u \in ExistingIds |->
                  [wallet |-> MaxNetAmount, cashouts |-> None, withdrawals |-> Some(<<>>)]]
    /\ records = <<>>
    /\ nextId = 1
    /\ submitted = 0
    /\ req = [r \in Reqs |-> IdleReq]
    /\ rd = IdleRd
    /\ initial = users

NextNet ==
    \/ \E a \in MinWithdrawal..MaxNetAmount : Submit(1, "u1", JsNumber(a), <<"7">>, <<>>, 12)
    \/ FindReturn(1)
    \/ InsertReturn(1)
    \/ SaveReturn(1)
    \/ StoreError(1)

SpecNet == InitNet /\ [][NextNet]_vars

(* ------------------------------ properties ----------------------------- *)
Done(r) == req[r].pc = "done"
Accepted(r) == Done(r) /\ req[r].resp.status = 201
Threw(r) == Done(r) /\ req[r].resp = InternalError
Rejections ==
    {MissingFields, BelowMinimum, OutsideBusinessHours, AccountNotFound, InsufficientBalance}
Rejected(r) == Done(r) /\ req[r].resp \in Rejections

Stored(doc) == \E i \in DOMAIN records : records[i] = doc

\* the five rules of a submission as the contract words them, on the request's
\* normalised fields and the account as stored when the request arrived
RuleFails(r, i) ==
    CASE i = 1 -> req[r].userId = "" \/ req[r].amount = 0 \/ req[r].payoutNumber = <<>>
      [] i = 2 -> req[r].amount < 200
      [] i = 3 -> req[r].hour \notin 9..16
      [] i = 4 -> req[r].before = None
      [] i = 5 -> req[r].before # None /\ req[r].before[1].wallet < req[r].amount

RuleOutcome(i) ==
    CASE i = 1 -> MissingFields
      [] i = 2 -> BelowMinimum
      [] i = 3 -> OutsideBusinessHours
      [] i = 4 -> AccountNotFound
      [] i = 5 -> InsufficientBalance

FirstFailing(r) ==
    LET failing == {i \in 1..5 : RuleFails(r, i)}
    IN  IF failing = {} THEN 0 ELSE CHOOSE i \in failing : \A j \in failing : i <= j

\* C1: the answer to a submission is that of the first failing rule in the
\* order MissingFields, BelowMinimum, OutsideBusinessHours, AccountNotFound,
\* InsufficientBalance; the account is not looked up unless the first three
\* rules passed; a submission that passes all five is answered 201.  (The one
\* other answer is the 500 of a store operation that throws, which can only
\* happen once the first three rules have passed.)
C1_FirstFailingRuleDecides ==
    \A r \in Reqs : Done(r) =>
        LET k == FirstFailing(r)
        IN  /\ k \in 1..3 => req[r].resp = RuleOutcome(k) /\ req[r].stage = "validate"
            /\ k \in 4..5 => req[r].resp \in {RuleOutcome(k), InternalError}
            /\ k = 0 => req[r].resp.status \in {201, 500}
            /\ req[r].stage = "validate" => k \in 1..3 /\ req[r].loaded = None

\* a submission outside business hours for an account that does not exist
C1_Witness ==
    \E r \in Reqs : /\ Done(r) /\ req[r].resp = OutsideBusinessHours
                    /\ req[r].userId = "u2" /\ req[r].hour = 17 /\ req[r].amount >= 200

\* C5 as worded: every submission whose coerced amount is below 200 is
\* answered BelowMinimum, whatever its other fields.
C5_Original ==
    \A r \in Reqs : Done(r) /\ req[r].amount < 200 => req[r].resp = BelowMinimum

\* C5 amended: a submission whose account id and payout number are present and
\* whose coerced amount is non-zero and below 200 (negative amounts included)
\* is answered BelowMinimum at any hour and for any account; a submission
\* whose coerced amount is zero (0, "", a non-numeric or a missing amount) is
\* answered MissingFields, as is one below 200 that lacks the account id or
\* the payout number.
C5_BelowMinimumAfterRequiredFields ==
    \A r \in Reqs : Done(r) /\ req[r].amount < 200 =>
        IF req[r].userId # "" /\ req[r].payoutNumber # <<>> /\ req[r].amount # 0
        THEN req[r].resp = BelowMinimum
        ELSE req[r].resp = MissingFields

\* a negative amount outside business hours for an account that does not exist
C5_Witness ==
    \E r \in Reqs : /\ Done(r) /\ req[r].amount < 0 /\ req[r].hour = 23
                    /\ req[r].userId = "u2" /\ req[r].resp = BelowMinimum

\* C3: a submission answered with one of the five rejections has changed
\* nothing: the account is as it was and no Withdrawal document of the
\* request is stored.
C3_RejectionMutatesNothing ==
    \A r \in Reqs : Rejected(r) =>
        /\ users = initial
        /\ \A i \in DOMAIN records : records[i].date # req[r].now
        /\ req[r].before # None => users[req[r].userId] = req[r].before[1]

\* a submission for more than the wallet holds, rejected
C3_Witness ==
    \E r \in Reqs : /\ Done(r) /\ req[r].resp = InsufficientBalance
                    /\ req[r].before[1].wallet < req[r].amount
                    /\ users[req[r].userId].wallet = req[r].before[1].wallet

\* C6: the net amount of the Withdrawal document, and the one the 201
\* answer reports, is the whole part of 82% of the amount, for every whole
\* amount from the minimum up: the double arithmetic of the handler loses
\* nothing.
C6_NetIsFloorOf82Percent ==
    \A r \in Reqs : req[r].doc # None =>
        LET net == (82 * req[r].amount) \div 100
        IN  /\ req[r].doc[1].amountAfterTax = Some(net)
            /\ req[r].doc[1].amount = req[r].amount
            /\ Accepted(r) => req[r].resp.ksh = [whole |-> net, decimals |-> <<0, 0>>]
            /\ Accepted(r) => Stored(req[r].doc[1])
            /\ req[r].amount = 1000 => req[r].doc[1].amountAfterTax = Some(820)
            /\ req[r].amount = 201 => req[r].doc[1].amountAfterTax = Some(164)

\* 201 requested: 164.82 is stored and reported as 164
C6_Witness ==
    \E r \in Reqs : /\ Accepted(r) /\ req[r].amount = 201
                    /\ req[r].resp.ksh.whole = 164
                    /\ \E i \in DOMAIN records : records[i].amountAfterTax = Some(164)

RECURSIVE SumOfAccepted(_)
\* the gross amounts of the accepted requests of a set, added up
SumOfAccepted(rs) ==
    IF rs = {} THEN 0
    ELSE LET r == CHOOSE x \in rs : TRUE
         IN  (IF Accepted(r) THEN req[r].amount ELSE 0) + SumOfAccepted(rs \ {r})

\* the step in which request r stores the account and is answered 201
AcceptStep(r) == req[r].pc = "saving" /\ req'[r].pc = "done" /\ req'[r].resp.status = 201

\* the step in which a store operation of request r throws
ThrowStep(r) == InFlight(r) /\ req'[r].pc = "done" /\ req'[r].resp = InternalError

C2_StepDebitsGross ==
    \A r \in Reqs : AcceptStep(r) /\ ~req'[r].overlapped =>
        LET id == req[r].userId
            before == req[r].before[1]
        IN  /\ users[id] = before
            /\ users'[id].wallet = before.wallet - req[r].amount
            /\ users'[id].cashouts = Some(OrZero(before.cashouts) + req[r].amount)

C2_SumOfGross ==
    (\A r \in Reqs : ~req[r].overlapped) =>
        /\ users["u1"].wallet = initial["u1"].wallet - SumOfAccepted(Reqs)
        /\ OrZero(users["u1"].cashouts) =
               OrZero(initial["u1"].cashouts) + SumOfAccepted(Reqs)

\* C2: an accepted submission during which no other handler for the account
\* was in flight leaves the stored wallet at its value on arrival minus the
\* gross amount and the stored cashouts at its value on arrival (0 if absent)
\* plus the gross amount; while no submissions have overlapped, the wallet
\* has dropped, and the cashouts grown, by the sum of the accepted gross amounts.
C2_DebitIsGross == [][C2_StepDebitsGross]_vars /\ []C2_SumOfGross

\* two submissions accepted one after the other, both debits in the wallet
C2_Witness ==
    \E r1, r2 \in Reqs :
        /\ r1 < r2 /\ Accepted(r1) /\ Accepted(r2)
        /\ \A r \in Reqs : ~req[r].overlapped
        /\ req[r2].before[1].wallet = initial["u1"].wallet - req[r1].amount
        /\ users["u1"].wallet = initial["u1"].wallet - req[r1].amount - req[r2].amount

\* C4: the stored wallet of an account is never negative.
C4_WalletNeverNegative == \A u \in DOMAIN users : users[u].wallet >= 0

\* two overlapping submissions accepted, and less than a minimum withdrawal left
C4_Witness ==
    \E r1, r2 \in Reqs :
        /\ r1 # r2 /\ Accepted(r1) /\ Accepted(r2)
        /\ req[r1].overlapped /\ req[r2].overlapped
        /\ users["u1"].wallet < MinWithdrawal

\* C10: wallet plus cashouts (0 if absent) of an account never changes.
C10_WalletPlusCashoutsConserved ==
    \A u \in DOMAIN users :
        users[u].wallet + OrZero(users[u].cashouts)
            = initial[u].wallet + OrZero(initial[u].cashouts)

\* two submissions accepted on the same read: the later save has replaced the
\* earlier debit, and the sum is as at the start
C10_Witness ==
    \E r1, r2 \in Reqs :
        /\ r1 # r2 /\ Accepted(r1) /\ Accepted(r2)
        /\ users["u1"].wallet = initial["u1"].wallet - req[r2].amount
        /\ users["u1"].cashouts = Some(OrZero(initial["u1"].cashouts) + req[r2].amount)

C8_CheckIsOnOwnRead ==
    \A r \in Reqs : req[r].loaded # None =>
        /\ req[r].resp = InsufficientBalance <=> req[r].loaded[1].wallet < req[r].amount
        /\ req[r].pc \in {"inserting", "saving"} \/ Accepted(r) =>
               req[r].amount <= req[r].loaded[1].wallet
        /\ Accepted(r) => Stored(req[r].doc[1])

C8_SaveIsOfOwnRead ==
    \A r \in Reqs : AcceptStep(r) =>
        /\ users'[req[r].userId].wallet = req[r].loaded[1].wallet - req[r].amount
        /\ users'[req[r].userId].cashouts =
               Some(OrZero(req[r].loaded[1].cashouts) + req[r].amount)

\* C8: nothing ties a handler to the others.  The balance rule of a
\* submission is decided on the account as that handler loaded it (refused
\* exactly when that balance is below the amount), and its save writes that
\* balance minus its amount whatever has been saved since the load; so two
\* handlers that load the same balance W with amounts that fit W one at a
\* time are both accepted and both debit.
C8_CheckThenAct == []C8_CheckIsOnOwnRead /\ [][C8_SaveIsOfOwnRead]_vars

\* both handlers loaded the initial balance W, a1 <= W, a2 <= W, a1 + a2 > W,
\* both were answered 201 and both Withdrawal documents are stored
C8_Witness ==
    \E r1, r2 \in Reqs :
        /\ r1 # r2 /\ Accepted(r1) /\ Accepted(r2)
        /\ req[r1].userId = req[r2].userId
        /\ req[r1].loaded = Some(initial["u1"]) /\ req[r2].loaded = Some(initial["u1"])
        /\ req[r1].amount <= initial["u1"].wallet
        /\ req[r2].amount <= initial["u1"].wallet
        /\ req[r1].amount + req[r2].amount > initial["u1"].wallet
        /\ Stored(req[r1].doc[1]) /\ Stored(req[r2].doc[1])
        /\ SumOfAccepted(Reqs) > initial["u1"].wallet

C9_RecordThenAccount ==
    \A r \in Reqs :
        /\ req[r].pc = "inserting" => ~Stored(req[r].doc[1])
        /\ req[r].pc = "saving" \/ Accepted(r) \/ (Threw(r) /\ req[r].stage = "saving") =>
               Stored(req[r].doc[1]) /\ req[r].doc[1].status = "pending"
        /\ Threw(r) /\ req[r].stage = "inserting" => ~Stored(req[r].doc[1])
        /\ Threw(r) /\ req[r].stage = "finding" => req[r].doc = None

C9_ThrowChangesNothing ==
    /\ \A r \in Reqs : ThrowStep(r) => users' = users /\ records' = records
    /\ \A i \in DOMAIN records : i \in DOMAIN records' /\ records'[i] = records[i]
    /\ users' # users => records' = records

\* C9: the Withdrawal document is stored in a step before the one that
\* stores the account.  A store operation that throws is answered 500 and
\* changes nothing: if it is the account save, the document stays stored,
\* pending, and the account undebited; if it is the document insert, neither
\* a document nor an account change is stored.  No stored document is ever
\* removed or changed.
C9_NoRollback == []C9_RecordThenAccount /\ [][C9_ThrowChangesNothing]_vars

\* the account save threw: a pending document and an account as at the start
C9_Witness ==
    \E r \in Reqs :
        /\ Threw(r) /\ req[r].stage = "saving"
        /\ Stored(req[r].doc[1]) /\ req[r].doc[1].status = "pending"
        /\ users = initial
        /\ \A q \in Reqs \ {r} : req[q].pc = "idle"

\* C7: a history request that found no Withdrawal document of the id looks
\* the account up and answers 404 if there is none, the embedded list as it
\* is if the account has one, and an empty list if it has none; a request
\* that found documents answers with one entry for each, newest first, and
\* does not look the account up.
C7_HistoryFallback ==
    rd.pc = "done" /\ rd.userId # "" /\ rd.resp # HistoryError =>
        IF rd.found = <<>>
        THEN /\ rd.lookedUp
             /\ rd.user = None => rd.resp = AccountNotFound
             /\ rd.user # None /\ rd.user[1].withdrawals = None =>
                    rd.resp = [status |-> 200, success |-> TRUE, history |-> <<>>]
             /\ rd.user # None /\ rd.user[1].withdrawals # None =>
                    rd.resp = [status |-> 200, success |-> TRUE,
                               history |-> rd.user[1].withdrawals[1]]
        ELSE /\ ~rd.lookedUp /\ rd.user = None
             /\ rd.resp.status = 200
             /\ Len(rd.resp.history) = Len(rd.found)
             /\ \A i \in DOMAIN rd.found :
                    /\ rd.resp.history[i].id = rd.found[i].id
                    /\ rd.found[i].user = rd.userId
                    /\ i > 1 => rd.found[i - 1].date >= rd.found[i].date

\* no document of the id, an embedded list of two summaries, returned as it is
C7_Witness ==
    /\ rd.pc = "done" /\ rd.found = <<>> /\ rd.user # None
    /\ rd.user[1].withdrawals # None
    /\ Len(rd.user[1].withdrawals[1]) = 2
    /\ rd.resp.status = 200
    /\ rd.resp.history = rd.user[1].withdrawals[1]

====
